---- MODULE Spec2Model ----
(***************************************************************************)
(* The HTTP write path of meilisearch-http: the access gate (helpers/tide), *)
(* the document routes (routes/document), the health routes                 *)
(* (routes/health), over the transactional store and the asynchronous       *)
(* update engine of meilisearch-core.                                       *)
(***************************************************************************)
EXTENDS Naturals, Integers, Sequences, FiniteSets, TLC

VARIABLES
    keys,          \* Data.api_keys: the three optional keys, fixed at start
    schema,        \* main store: the index's schema, an Option
    docs,          \* main store: the documents, keyed by document id
    unhealthy,     \* main store: presence of the key "_is_unhealthy"
    updates,       \* update store: the committed updates not yet applied
    results,       \* status registry: the outcome recorded for each applied
                   \* update, by id, and how many times it was delivered
    nextUpdateId,  \* update store: the index's committed update-id counter
    updateWriter,  \* holder of the update store's single write transaction
    mainWriter,    \* holder of the main store's single write transaction
    reqs,          \* the request-handling flows
    last           \* history: the last committed mutation request

vars == <<keys, schema, docs, unhealthy, updates, results, nextUpdateId,
          updateWriter, mainWriter, reqs, last>>

storeVars == <<schema, docs, unhealthy, updates, results, nextUpdateId>>

\* ------------------------------------------------------------------ bounds

\* The update ids the model allocates are 0 .. MaxUpdates-1: a write
\* transaction of the update store is opened only while two ids are left.
MaxUpdates == 4

\* The sample documents of schema inference have up to MaxKeys attributes.
MaxKeys == 3

\* ------------------------------------------------------------------ options

None == <<>>
Some(x) == <<x>>
IsNone(o) == o = <<>>
IsSome(o) == o # <<>>
Unwrap(o) == o[1]

\* ------------------------------------------------------------------ strings
\* Attribute names are sequences of characters, so that to_lowercase and
\* contains are computed, not assumed.

Upper == <<"I", "D">>
Lower == <<"i", "d">>

to_lowercase_char(c) ==
    IF \E i \in 1..Len(Upper) : Upper[i] = c
    THEN Lower[CHOOSE i \in 1..Len(Upper) : Upper[i] = c]
    ELSE c

to_lowercase(s) == [i \in 1..Len(s) |-> to_lowercase_char(s[i])]

contains(s, pat) ==
    \E i \in 0..(Len(s) - Len(pat)) :
        \A j \in 1..Len(pat) : s[i + j] = pat[j]

K_id == <<"i", "d">>
K_title == <<"t", "i", "t", "l", "e">>
K_name == <<"n", "a", "m", "e">>
K_productId == <<"p", "r", "o", "d", "u", "c", "t", "I", "d">>
K_price == <<"p", "r", "i", "c", "e">>
K_ID == <<"I", "D">>
K_width == <<"w", "i", "d", "t", "h">>
K_index == <<"i", "n", "d", "e", "x">>

\* ------------------------------------------------------------------ payloads
\* A document is an IndexMap: an ordered sequence of (key, value) entries.

DocA == << [k |-> K_id, v |-> "a"], [k |-> K_title, v |-> "x"] >>
DocB == << [k |-> K_id, v |-> "a"], [k |-> K_title, v |-> "y"],
           [k |-> K_name, v |-> "m"] >>
DocN == << [k |-> K_title, v |-> "z"] >>
DocP == << [k |-> K_name, v |-> "n"], [k |-> K_productId, v |-> "p"],
           [k |-> K_price, v |-> "9"] >>

\* Bodies of delete-many: sequences of JSON values.
JString(s) == [t |-> "string", s |-> s]
JNull == [t |-> "null", s |-> ""]

Identifiers == { "a", "zz" }

Keys(document) == [i \in 1..Len(document) |-> document[i].k]

\* ------------------------------------------------------------------ AccessGate

\* A request's X-Meili-API-Key header: absent, or a value that is or is not
\* made of visible ASCII characters only (HeaderValue::to_str).
Header(s) == Some([visible |-> TRUE, s |-> s])
OpaqueHeader == Some([visible |-> FALSE, s |-> "?"])

KeyStrings == {"mk", "pk", "uk"}
Headers == {None, OpaqueHeader} \cup {Header(s) : s \in KeyStrings \cup {"xx"}}

Ok(v) == [ok |-> TRUE, v |-> v]
Err(e) == [ok |-> FALSE, err |-> e]

\* ContextExt::header
header(h) ==
    IF IsNone(h) THEN Err("missing_header")
    ELSE IF ~Unwrap(h).visible THEN Err("missing_header")
    ELSE Ok(Unwrap(h).s)

is_allowed_wrongTier(ks, h, acl) ==
    LET user_api_key == header(h) IN
    IF ~user_api_key.ok THEN user_api_key.err
    ELSE IF Some(user_api_key.v) \in {ks.master, ks.private, ks.public}
    THEN "ok" ELSE "invalid_token"

is_allowed_noHeaderCheck(ks, h, acl) ==
    IF IsNone(h) \/ ~Unwrap(h).visible THEN "invalid_token"
    ELSE IF Some(Unwrap(h).s) = ks.master THEN "ok"
    ELSE IF acl # "Admin" /\ Some(Unwrap(h).s) = ks.private THEN "ok"
    ELSE IF acl = "Public" /\ Some(Unwrap(h).s) = ks.public THEN "ok"
    ELSE "invalid_token"

\* ContextExt::is_allowed: "ok", or the error it returns.
is_allowed(ks, h, acl) ==
    LET user_api_key == header(h) IN
    IF ~user_api_key.ok THEN user_api_key.err
    ELSE CASE acl = "Admin" ->
                IF Some(user_api_key.v) = ks.master THEN "ok"
                ELSE "invalid_token"
           [] acl = "Private" ->
                IF Some(user_api_key.v) = ks.master THEN "ok"
                ELSE IF Some(user_api_key.v) = ks.private THEN "ok"
                ELSE "invalid_token"
           [] acl = "Public" ->
                IF Some(user_api_key.v) = ks.master THEN "ok"
                ELSE IF Some(user_api_key.v) = ks.private THEN "ok"
                ELSE IF Some(user_api_key.v) = ks.public THEN "ok"
                ELSE "invalid_token"

\* ------------------------------------------------------------------ schema inference

RECURSIVE find_identifier(_, _, _)
\* the loop of infered_schema: the first key whose lowercase contains "id"
find_identifier(ks, i, identifier) ==
    IF i > Len(ks) THEN identifier
    ELSE find_identifier(ks, i + 1,
            IF IsNone(identifier) /\ contains(to_lowercase(ks[i]), K_id)
            THEN Some(ks[i]) ELSE identifier)

infered_schema_lastMatch(document) ==
    LET ks == Keys(document)
        hits == {i \in 1..Len(ks) : contains(to_lowercase(ks[i]), K_id)}
    IN IF hits # {}
       THEN Some([identifier |-> ks[CHOOSE i \in hits : \A j \in hits : j <= i],
                  attributes |-> [i \in 1..Len(document) |->
                      [name |-> document[i].k, displayed |-> TRUE, indexed |-> TRUE]]])
       ELSE None

\* infered_schema: None, or the schema with that identifier and every key of
\* the document DISPLAYED | INDEXED.
infered_schema(document) ==
    LET identifier == find_identifier(Keys(document), 1, None) IN
    IF IsSome(identifier)
    THEN Some([identifier |-> Unwrap(identifier),
               attributes |-> [i \in 1..Len(document) |->
                   [name |-> document[i].k, displayed |-> TRUE, indexed |-> TRUE]]])
    ELSE None

first_infered_schema_anyDocument(data) ==
    LET hits == {i \in 1..Len(data) : IsSome(infered_schema(data[i]))} IN
    IF hits = {} THEN None
    ELSE infered_schema(data[CHOOSE i \in hits : \A j \in hits : i <= j])

\* data.first().and_then(infered_schema)
first_infered_schema(data) ==
    IF Len(data) = 0 THEN None ELSE infered_schema(data[1])

\* ------------------------------------------------------------------ update store
\* meilisearch-core: updates are pushed inside a write transaction of the
\* update store; the id of each is the transaction's view of the counter.

UpdateOf(id, kind, data) == [id |-> id, kind |-> kind, data |-> data]

PushUpdate_inFront(rq, kind, data) ==
    [rq EXCEPT !.staged = <<UpdateOf(rq.txnNext, kind, data)>> \o rq.staged,
               !.txnNext = rq.txnNext + 1]

\* push an update in the write transaction of a request: it takes the next
\* id of the transaction and is visible to nobody before the commit
PushUpdate(rq, kind, data) ==
    [rq EXCEPT !.staged = Append(rq.staged, UpdateOf(rq.txnNext, kind, data)),
               !.txnNext = rq.txnNext + 1]

\* meilisearch_core::serde::value_to_string
value_to_string(value) ==
    IF value.t = "string" THEN Some(value.s) ELSE None

\* meilisearch_core::serde::compute_document_id: a fixed hash of the string
compute_document_id(s) ==
    CASE s = "a" -> 1
      [] s = "p" -> 2
      [] s = "zz" -> 3
      [] OTHER -> 4

DocIds == 1..4

\* ------------------------------------------------------------------ requests

UpsertOps == {"add_or_replace", "add_or_update"}
MutationOps == UpsertOps \cup {"delete_document", "delete_multiple", "clear_all"}
ReadOps == {"get_document", "get_all_documents"}
HealthWriteOps == {"set_healthy", "set_unhealthy", "change_healthyness"}
Ops == MutationOps \cup ReadOps \cup HealthWriteOps \cup {"get_health"}
KeyOps == {"list_keys"}

\* Two fields are history: overlap (a mutation of another flow committed
\* while this request was in flight) and at (the step that answered).
Idle == [op |-> "none", pc |-> "idle", hdr |-> None, data |-> <<>>,
         reader |-> None, staged |-> <<>>, txnNext |-> 0,
         update_id |-> None, resp |-> "none", overlap |-> FALSE,
         at |-> "none"]

\* Two request flows: the races of the claims are between two requests.
Req == {1, 2}

InFlight(rq) == rq.pc \notin {"idle", "done"}

\* The capability each handler asks of is_allowed (its first line).
RequiredACL(op) ==
    CASE op \in ReadOps -> "Public"
      [] op \in MutationOps -> "Private"
      [] op \in HealthWriteOps -> "Admin"
      [] op \in KeyOps -> "Admin"

\* Where a handler goes once its url parameters are read.
AfterIndex(op) ==
    CASE op \in ReadOps -> "read"
      [] op \in UpsertOps -> "reader"
      [] OTHER -> "writer"

\* The handler returns: only the response outlives it.
Done(resp, update_id, at) ==
    [Idle EXCEPT !.pc = "done", !.resp = resp, !.update_id = update_id,
                 !.at = at]

Respond(r, resp) == reqs' = [reqs EXCEPT ![r] = Done(resp, None, reqs[r].pc)]

\* An early return of a handler that holds the update store's write
\* transaction: the transaction is dropped, which aborts it.
AbortUpdateTxn(r, resp) ==
    /\ Respond(r, resp)
    /\ updateWriter' = None

\* A request arrives: the router dispatches it to its handler.
Start(r, ops, hdrs) ==
    /\ reqs[r].pc = "idle"
    /\ \E op \in ops, h \in hdrs :
          reqs' = [reqs EXCEPT ![r] =
              [Idle EXCEPT !.op = op, !.hdr = h,
                  !.pc = CASE op = "change_healthyness" -> "body"
                           [] op = "get_health" -> "read"
                           [] OTHER -> "auth"]]
    /\ UNCHANGED <<keys, storeVars, updateWriter, mainWriter, last>>

Authorize_unchecked(r) ==
    /\ reqs[r].pc = "auth"
    /\ reqs' = [reqs EXCEPT ![r].pc =
            CASE reqs[r].op \in {"add_or_replace", "add_or_update",
                                 "delete_multiple"} -> "body"
              [] reqs[r].op \in HealthWriteOps -> "writer"
              [] reqs[r].op \in KeyOps -> "list"
              [] OTHER -> "index"]
    /\ UNCHANGED <<keys, storeVars, updateWriter, mainWriter, last>>

\* ctx.is_allowed(..)?
Authorize(r) ==
    /\ reqs[r].pc = "auth"
    /\ LET res == is_allowed(keys, reqs[r].hdr, RequiredACL(reqs[r].op)) IN
       IF res = "ok"
       THEN reqs' = [reqs EXCEPT ![r].pc =
                CASE reqs[r].op \in {"add_or_replace", "add_or_update",
                                     "delete_multiple"} -> "body"
                  [] reqs[r].op \in HealthWriteOps -> "writer"
                  [] reqs[r].op \in KeyOps -> "list"
                  [] OTHER -> "index"]
       ELSE Respond(r, res)
    /\ UNCHANGED <<keys, storeVars, updateWriter, mainWriter, last>>

BodiesOf(op, batches, deletes) ==
    CASE op \in UpsertOps -> batches
      [] op = "delete_multiple" -> deletes
      [] op = "change_healthyness" -> {<<TRUE>>, <<FALSE>>}

\* ctx.body_json().await: the body deserializes, or bad_request
Body(r, batches, deletes) ==
    /\ reqs[r].pc = "body"
    /\ \/ \E d \in BodiesOf(reqs[r].op, batches, deletes) :
             reqs' = [reqs EXCEPT ![r].data = d,
                 ![r].pc = IF reqs[r].op = "change_healthyness"
                           THEN "auth" ELSE "index"]
       \/ Respond(r, "bad_request")
    /\ UNCHANGED <<keys, storeVars, updateWriter, mainWriter, last>>

\* The request's future is dropped at its one suspension point, the await
\* of the body: the handler runs no further and nothing is answered.
CancelBody(r) ==
    /\ reqs[r].pc = "body"
    /\ reqs' = [reqs EXCEPT ![r] = Idle]
    /\ UNCHANGED <<keys, storeVars, updateWriter, mainWriter, last>>

\* ctx.index()? and, for the single-document routes, ctx.identifier()?
Index(r, identifiers) ==
    /\ reqs[r].pc = "index"
    /\ \/ IF reqs[r].op \in {"get_document", "delete_document"}
          THEN \E id \in identifiers :
                  reqs' = [reqs EXCEPT ![r].data = <<id>>,
                                       ![r].pc = AfterIndex(reqs[r].op)]
          ELSE reqs' = [reqs EXCEPT ![r].pc = AfterIndex(reqs[r].op)]
       \/ Respond(r, "index_not_found")
    /\ UNCHANGED <<keys, storeVars, updateWriter, mainWriter, last>>

\* The response is sent; the flow is free for another request.
Finish(r) ==
    /\ reqs[r].pc = "done"
    /\ reqs' = [reqs EXCEPT ![r] = Idle]
    /\ UNCHANGED <<keys, storeVars, updateWriter, mainWriter, last>>

\* ------------------------------------------------------------------ document routes

\* db.main_read_txn(): a snapshot of the main store
OpenReader(r) ==
    /\ reqs[r].pc = "reader"
    /\ \/ reqs' = [reqs EXCEPT ![r].reader = Some(schema), ![r].pc = "writer"]
       \/ Respond(r, "internal")
    /\ UNCHANGED <<keys, storeVars, updateWriter, mainWriter, last>>

\* db.update_write_txn(): waits for the single writer of the update store
OpenUpdateWriter(r) ==
    /\ reqs[r].pc = "writer"
    /\ reqs[r].op \in MutationOps
    /\ \/ /\ updateWriter = None
          /\ nextUpdateId + 2 <= MaxUpdates
          /\ updateWriter' = Some(r)
          /\ reqs' = [reqs EXCEPT ![r].txnNext = nextUpdateId,
                 ![r].pc = IF reqs[r].op \in UpsertOps
                           THEN "schema" ELSE "finalize"]
       \/ /\ Respond(r, "internal")
          /\ UNCHANGED updateWriter
    /\ UNCHANGED <<keys, storeVars, mainWriter, last>>

\* return Err(ResponseError::bad_request("Could not infer a schema")): the
\* writer is dropped; the refused batch is kept with the answer as history
RefuseBatch(r) ==
    /\ reqs' = [reqs EXCEPT ![r] =
            [Done("bad_request", None, "infer") EXCEPT !.data = reqs[r].data]]
    /\ updateWriter' = None

\* index.main.schema(&reader)?: the schema of the reader's snapshot
ReadSchema(r) ==
    /\ reqs[r].pc = "schema"
    /\ \/ /\ reqs' = [reqs EXCEPT ![r].pc = "infer"]
          /\ UNCHANGED updateWriter
       \/ AbortUpdateTxn(r, "internal")
    /\ UNCHANGED <<keys, storeVars, mainWriter, last>>

SchemaCheck_ownTxn(r) ==
    /\ reqs[r].pc = "infer"
    /\ LET current_schema == Unwrap(reqs[r].reader)
           infered == first_infered_schema(reqs[r].data) IN
       IF IsNone(current_schema)
       THEN IF IsSome(infered)
            THEN /\ reqs' = [reqs EXCEPT ![r].txnNext = reqs[r].txnNext + 1,
                                         ![r].pc = "finalize"]
                 /\ updates' = Append(updates,
                        UpdateOf(nextUpdateId, "schema", Unwrap(infered)))
                 /\ nextUpdateId' = nextUpdateId + 1
                 /\ UNCHANGED <<updateWriter, schema, docs, unhealthy, results>>
            ELSE RefuseBatch(r) /\ UNCHANGED storeVars
       ELSE /\ reqs' = [reqs EXCEPT ![r].pc = "finalize"]
            /\ UNCHANGED <<updateWriter, storeVars>>
    /\ UNCHANGED <<keys, mainWriter, last>>

SchemaCheck_noReject(r) ==
    /\ reqs[r].pc = "infer"
    /\ LET infered == first_infered_schema(reqs[r].data) IN
       IF IsNone(Unwrap(reqs[r].reader)) /\ IsSome(infered)
       THEN reqs' = [reqs EXCEPT ![r] =
                [PushUpdate(reqs[r], "schema", Unwrap(infered))
                    EXCEPT !.pc = "finalize"]]
       ELSE reqs' = [reqs EXCEPT ![r].pc = "finalize"]
    /\ UNCHANGED <<keys, storeVars, updateWriter, mainWriter, last>>

\* update_multiple_documents: the schema check and the staging of the
\* inferred schema
SchemaCheck(r) ==
    /\ reqs[r].pc = "infer"
    /\ \/ LET current_schema == Unwrap(reqs[r].reader)
              infered == first_infered_schema(reqs[r].data) IN
          IF IsNone(current_schema)
          THEN IF IsSome(infered)
               THEN /\ reqs' = [reqs EXCEPT ![r] =
                         [PushUpdate(reqs[r], "schema", Unwrap(infered))
                             EXCEPT !.pc = "finalize"]]
                    /\ UNCHANGED updateWriter
               ELSE RefuseBatch(r)
          ELSE /\ reqs' = [reqs EXCEPT ![r].pc = "finalize"]
               /\ UNCHANGED updateWriter
       \/ /\ IsNone(Unwrap(reqs[r].reader))
          /\ IsSome(first_infered_schema(reqs[r].data))
          /\ AbortUpdateTxn(r, "internal")
    /\ UNCHANGED <<keys, storeVars, mainWriter, last>>

KindOf_swapped(op) ==
    CASE op = "add_or_replace" -> "documents_partial_addition"
      [] op = "add_or_update" -> "documents_addition"
      [] op \in {"delete_document", "delete_multiple"} -> "documents_deletion"
      [] op = "clear_all" -> "clear_all"

\* The update a mutation handler builds from its payload.
KindOf(op) ==
    CASE op = "add_or_replace" -> "documents_addition"
      [] op = "add_or_update" -> "documents_partial_addition"
      [] op \in {"delete_document", "delete_multiple"} -> "documents_deletion"
      [] op = "clear_all" -> "clear_all"

RECURSIVE deletion_ids(_, _)
\* the loop of delete_multiple_documents
deletion_ids(data, i) ==
    IF i > Len(data) THEN <<>>
    ELSE LET identifier == value_to_string(data[i]) IN
         IF IsSome(identifier)
         THEN <<compute_document_id(Unwrap(identifier))>> \o deletion_ids(data, i + 1)
         ELSE deletion_ids(data, i + 1)

PayloadOf(op, data) ==
    CASE op \in UpsertOps -> data
      [] op = "delete_document" -> <<compute_document_id(data[1])>>
      [] op = "delete_multiple" -> deletion_ids(data, 1)
      [] op = "clear_all" -> <<>>

Finalize_returnsFirstId(r) ==
    /\ reqs[r].pc = "finalize"
    /\ reqs' = [reqs EXCEPT ![r] =
            [PushUpdate(reqs[r], KindOf(reqs[r].op),
                        PayloadOf(reqs[r].op, reqs[r].data))
                EXCEPT !.update_id = Some(nextUpdateId),
                       !.data = <<>>, !.pc = "commit"]]
    /\ UNCHANGED <<keys, storeVars, updateWriter, mainWriter, last>>

\* finalize(&mut writer) / clear_all(&mut writer): the update is pushed and
\* its id kept for the response
Finalize(r) ==
    /\ reqs[r].pc = "finalize"
    /\ \/ /\ reqs' = [reqs EXCEPT ![r] =
                [PushUpdate(reqs[r], KindOf(reqs[r].op),
                            PayloadOf(reqs[r].op, reqs[r].data))
                    EXCEPT !.update_id = Some(reqs[r].txnNext),
                           !.data = <<>>, !.pc = "commit"]]
          /\ UNCHANGED updateWriter
       \/ AbortUpdateTxn(r, "internal")
    /\ UNCHANGED <<keys, storeVars, mainWriter, last>>

Commit_ignoresFailure(r) ==
    /\ reqs[r].pc = "commit"
    /\ \/ /\ updates' = updates \o reqs[r].staged
          /\ nextUpdateId' = reqs[r].txnNext
          /\ UNCHANGED <<schema, docs, unhealthy, results>>
       \/ UNCHANGED storeVars
    /\ updateWriter' = None
    /\ last' = Some([ret |-> Unwrap(reqs[r].update_id),
                     upsert |-> reqs[r].op \in UpsertOps,
                     infered |-> reqs[r].staged[1].kind = "schema"])
    /\ reqs' = [reqs EXCEPT ![r] = Done("accepted", reqs[r].update_id, "commit")]
    /\ UNCHANGED <<keys, mainWriter>>

\* writer.commit(): the staged updates and the counter become visible
\* together, and the response carries update_id
Commit(r) ==
    /\ reqs[r].pc = "commit"
    /\ \/ /\ updates' = updates \o reqs[r].staged
          /\ nextUpdateId' = reqs[r].txnNext
          /\ updateWriter' = None
          /\ last' = Some([ret |-> Unwrap(reqs[r].update_id),
                           upsert |-> reqs[r].op \in UpsertOps,
                           infered |-> reqs[r].staged[1].kind = "schema"])
          /\ reqs' = [q \in Req |->
                IF q = r THEN Done("accepted", reqs[r].update_id, "commit")
                ELSE IF InFlight(reqs[q]) THEN [reqs[q] EXCEPT !.overlap = TRUE]
                ELSE reqs[q]]
          /\ UNCHANGED <<schema, docs, unhealthy, results>>
       \/ /\ AbortUpdateTxn(r, "internal")
          /\ UNCHANGED <<storeVars, last>>
    /\ UNCHANGED <<keys, mainWriter>>

\* get_document / get_all_documents: a read transaction and the lookup
Read(r) ==
    /\ reqs[r].pc = "read"
    /\ reqs[r].op \in ReadOps
    /\ \/ IF reqs[r].op = "get_document"
          THEN LET response == docs[compute_document_id(reqs[r].data[1])] IN
               IF IsNone(response) THEN Respond(r, "document_not_found")
               ELSE IF Unwrap(response) = {} THEN Respond(r, "document_not_found")
               ELSE Respond(r, "ok")
          ELSE Respond(r, "ok")
       \/ Respond(r, "internal")
    /\ UNCHANGED <<keys, storeVars, updateWriter, mainWriter, last>>

\* ------------------------------------------------------------------ health routes

GetHealth_inverted(r) ==
    /\ reqs[r].pc = "read"
    /\ reqs[r].op = "get_health"
    /\ \/ IF unhealthy THEN Respond(r, "ok") ELSE Respond(r, "maintenance")
       \/ Respond(r, "internal")
    /\ UNCHANGED <<keys, storeVars, updateWriter, mainWriter, last>>

\* get_health: no credential is asked; an error of the lookup is not an
\* Ok(Some(_)) and answers Ok
GetHealth(r) ==
    /\ reqs[r].pc = "read"
    /\ reqs[r].op = "get_health"
    /\ \/ IF unhealthy THEN Respond(r, "maintenance") ELSE Respond(r, "ok")
       \/ Respond(r, "ok")
       \/ Respond(r, "internal")
    /\ UNCHANGED <<keys, storeVars, updateWriter, mainWriter, last>>

\* change_healthyness dispatches on body.health
sets_healthy(rq) ==
    \/ rq.op = "set_healthy"
    \/ rq.op = "change_healthyness" /\ rq.data[1]

\* db.main_write_txn(): waits for the single writer of the main store
OpenMainWriter(r) ==
    /\ reqs[r].pc = "writer"
    /\ reqs[r].op \in HealthWriteOps
    /\ \/ /\ mainWriter = None
          /\ mainWriter' = Some(r)
          /\ reqs' = [reqs EXCEPT ![r].pc = "flag"]
       \/ /\ Respond(r, "internal")
          /\ UNCHANGED mainWriter
    /\ UNCHANGED <<keys, storeVars, updateWriter, last>>

\* common_store.delete / common_store.put of UNHEALTHY_KEY in the writer
StageFlag(r) ==
    /\ reqs[r].pc = "flag"
    /\ \/ /\ reqs' = [reqs EXCEPT ![r].pc = "flag_commit", ![r].data = <<>>,
                 ![r].staged = <<IF sets_healthy(reqs[r]) THEN "delete" ELSE "put">>]
          /\ UNCHANGED mainWriter
       \/ /\ Respond(r, "internal")
          /\ mainWriter' = None
    /\ UNCHANGED <<keys, storeVars, updateWriter, last>>

CommitFlag_keepsWriter(r) ==
    /\ reqs[r].pc = "flag_commit"
    /\ \/ /\ unhealthy' = (reqs[r].staged[1] = "put")
          /\ Respond(r, "ok")
          /\ mainWriter' = None
       \/ /\ Respond(r, "internal")
          /\ UNCHANGED <<unhealthy, mainWriter>>
    /\ UNCHANGED <<keys, schema, docs, updates, results, nextUpdateId,
                   updateWriter, last>>

\* writer.commit() of set_healthy / set_unhealthy
CommitFlag(r) ==
    /\ reqs[r].pc = "flag_commit"
    /\ \/ /\ unhealthy' = (reqs[r].staged[1] = "put")
          /\ Respond(r, "ok")
       \/ /\ Respond(r, "internal")
          /\ UNCHANGED unhealthy
    /\ mainWriter' = None
    /\ UNCHANGED <<keys, schema, docs, updates, results, nextUpdateId,
                   updateWriter, last>>

\* ------------------------------------------------------------------ key route

ListKeys_allKeys(r) ==
    /\ reqs[r].pc = "list"
    /\ reqs' = [reqs EXCEPT ![r] =
            [Done("ok", None, "list") EXCEPT !.data =
                <<[master |-> keys.master, private |-> keys.private,
                   public |-> keys.public]>>]]
    /\ UNCHANGED <<keys, storeVars, updateWriter, mainWriter, last>>

\* key::list, after is_allowed(Admin): the response body is the private and
\* the public key of the configuration
ListKeys(r) ==
    /\ reqs[r].pc = "list"
    /\ reqs' = [reqs EXCEPT ![r] =
            [Done("ok", None, "list") EXCEPT !.data =
                <<[private |-> keys.private, public |-> keys.public]>>]]
    /\ UNCHANGED <<keys, storeVars, updateWriter, mainWriter, last>>

\* ------------------------------------------------------------------ update engine
\* meilisearch-core's update thread: it applies the oldest enqueued update to
\* the main store and records the outcome.

Entries(document) == {document[i] : i \in 1..Len(document)}

HasKey(body, k) == \E e \in body : e.k = k

ValueOf(body, k) == (CHOOSE e \in body : e.k = k).v

\* the documents after one document of an addition is applied
ApplyDocument(ds, sch, document, partial) ==
    LET body == Entries(document) IN
    IF ~HasKey(body, sch.identifier) THEN ds
    ELSE LET id == compute_document_id(ValueOf(body, sch.identifier))
             old == IF partial /\ IsSome(ds[id]) THEN Unwrap(ds[id]) ELSE {}
         IN [ds EXCEPT ![id] =
                Some({e \in old : ~HasKey(body, e.k)} \cup body)]

RECURSIVE ApplyAddition(_, _, _, _, _)
ApplyAddition(ds, sch, data, i, partial) ==
    IF i > Len(data) THEN ds
    ELSE ApplyAddition(ApplyDocument(ds, sch, data[i], partial),
                       sch, data, i + 1, partial)

ApplyDeletion_clears(ds, ids) ==
    [id \in DocIds |-> IF ids # <<>> THEN None ELSE ds[id]]

ApplyDeletion(ds, ids) ==
    [id \in DocIds |-> IF \E i \in 1..Len(ids) : ids[i] = id THEN None ELSE ds[id]]

Terminal == {"processed", "failed"}

record_result_lastWins(res, update_id, outcome) ==
    IF update_id < Len(res)
    THEN [res EXCEPT ![update_id + 1] = [status |-> outcome, calls |-> 2]]
    ELSE Append(res, [status |-> outcome, calls |-> 1])

\* UpdateStatusRegistry.record_result: the first outcome delivered for an
\* update-id is recorded; a later delivery for the same id changes no status
record_result(res, update_id, outcome) ==
    IF update_id < Len(res)
    THEN [res EXCEPT ![update_id + 1].calls = 2]
    ELSE Append(res, [status |-> outcome, calls |-> 1])

\* UpdateStatusRegistry.status_of
status_of(update_id) ==
    IF update_id < Len(results) THEN results[update_id + 1].status
    ELSE IF \E i \in 1..Len(updates) : updates[i].id = update_id THEN "enqueued"
    ELSE "unknown"

\* the update leaves the queue and the completion callback records its
\* outcome under its id
Settle(status) ==
    /\ updates' = Tail(updates)
    /\ results' = record_result(results, Head(updates).id, status)

ProcessUpdate_stopsAfterFailure ==
    /\ updates # <<>>
    /\ updateWriter = None
    /\ mainWriter = None
    /\ \A i \in 1..Len(results) : results[i].status # "failed"
    /\ LET u == Head(updates) IN
       /\ IF \/ (u.kind = "schema" /\ IsSome(schema) /\ schema # Some(u.data))
             \/ (u.kind \in {"documents_addition", "documents_partial_addition"}
                   /\ IsNone(schema))
          THEN Settle("failed")
          ELSE Settle("processed")
       /\ schema' = IF u.kind = "schema" /\ IsNone(schema)
                     THEN Some(u.data) ELSE schema
       /\ docs' = CASE u.kind = "documents_deletion" -> ApplyDeletion(docs, u.data)
                    [] u.kind = "clear_all" -> [id \in DocIds |-> None]
                    [] (u.kind \in {"documents_addition", "documents_partial_addition"}
                          /\ IsSome(schema)) ->
                          ApplyAddition(docs, Unwrap(schema), u.data, 1,
                                        u.kind = "documents_partial_addition")
                    [] OTHER -> docs
    /\ UNCHANGED <<keys, unhealthy, nextUpdateId, updateWriter, mainWriter,
                   reqs, last>>

ProcessUpdate ==
    /\ updates # <<>>
    /\ updateWriter = None
    /\ mainWriter = None
    /\ LET u == Head(updates) IN
       \/ /\ u.kind = "schema"
          /\ IF IsNone(schema)
             THEN schema' = Some(u.data) /\ Settle("processed")
             ELSE IF schema = Some(u.data)
             THEN UNCHANGED schema /\ Settle("processed")
             ELSE UNCHANGED schema /\ Settle("failed")
          /\ UNCHANGED docs
       \/ /\ u.kind \in {"documents_addition", "documents_partial_addition"}
          /\ IF IsNone(schema)
             THEN UNCHANGED docs /\ Settle("failed")
             ELSE /\ docs' = ApplyAddition(docs, Unwrap(schema), u.data, 1,
                                 u.kind = "documents_partial_addition")
                  /\ Settle("processed")
          /\ UNCHANGED schema
       \/ /\ u.kind = "documents_deletion"
          /\ docs' = ApplyDeletion(docs, u.data)
          /\ Settle("processed")
          /\ UNCHANGED schema
       \/ /\ u.kind = "clear_all"
          /\ docs' = [id \in DocIds |-> None]
          /\ Settle("processed")
          /\ UNCHANGED schema
    /\ UNCHANGED <<keys, unhealthy, nextUpdateId, updateWriter, mainWriter,
                   reqs, last>>

\* The completion callback is delivered once more for an update whose
\* outcome is already recorded, with whatever outcome.
DuplicateCallback ==
    /\ \E update_id \in 0..(Len(results) - 1), outcome \in Terminal :
          /\ results[update_id + 1].calls = 1
          /\ results' = record_result(results, update_id, outcome)
    /\ UNCHANGED <<keys, schema, docs, unhealthy, updates, nextUpdateId,
                   updateWriter, mainWriter, reqs, last>>

\* ------------------------------------------------------------------ the system

AllKeys == [master |-> Some("mk"), private |-> Some("pk"), public |-> Some("uk")]

InitStore ==
    /\ schema = None
    /\ docs = [id \in DocIds |-> None]
    /\ unhealthy = FALSE
    /\ updates = <<>>
    /\ results = <<>>
    /\ nextUpdateId = 0
    /\ updateWriter = None
    /\ mainWriter = None
    /\ reqs = [r \in Req |-> Idle]
    /\ last = None

\* The mutation pipeline: two flows of document mutations, with or without
\* the private key, and the engine.
PipelineHeaders == {None, Header("pk")}
PipelineBatches == { <<>>, <<DocA>>, <<DocN, DocA>> }
PipelineDeletes == { <<>>, <<JNull, JString("a")>> }

Init ==
    /\ keys = AllKeys
    /\ InitStore

Next ==
    \/ \E r \in Req :
          \/ Start(r, MutationOps, PipelineHeaders)
          \/ Authorize(r)
          \/ Body(r, PipelineBatches, PipelineDeletes)
          \/ CancelBody(r)
          \/ Index(r, {"a"})
          \/ OpenReader(r)
          \/ OpenUpdateWriter(r)
          \/ ReadSchema(r)
          \/ SchemaCheck(r)
          \/ Finalize(r)
          \/ Commit(r)
          \/ Finish(r)
    \/ ProcessUpdate

Spec == Init /\ [][Next]_vars

\* The access gate alone: one flow, every route that asks for a capability,
\* every kind of credential header, every configuration of the three keys.
\* What a handler does behind the gate is not part of this specification.
OptionalKeys == {None} \cup {Some(k) : k \in KeyStrings}
KeyConfigs == [master : OptionalKeys, private : OptionalKeys, public : OptionalKeys]

InitAuth ==
    /\ keys \in KeyConfigs
    /\ InitStore

NextAuth ==
    \/ Start(1, (Ops \ {"get_health"}) \cup KeyOps, Headers)
    \/ Authorize(1)
    \/ ListKeys(1)
    \/ Body(1, {<<DocA>>}, {<<JString("a")>>})
    \/ CancelBody(1)
    \/ Finish(1)

SpecAuth == InitAuth /\ [][NextAuth]_vars

\* Every route behind the gate: one flow, every route, every kind of
\* credential header, with the three keys configured or none of them.
NoKeys == [master |-> None, private |-> None, public |-> None]
GateBatches == { <<DocA>>, <<DocA, DocB>>, <<DocN, DocA>> }
GateDeletes == { <<JString("a")>> }

InitGate ==
    /\ keys \in {AllKeys, NoKeys}
    /\ InitStore

NextGate ==
    \/ Start(1, Ops, Headers)
    \/ Authorize(1)
    \/ Body(1, GateBatches, GateDeletes)
    \/ CancelBody(1)
    \/ Index(1, Identifiers)
    \/ OpenReader(1)
    \/ OpenUpdateWriter(1)
    \/ ReadSchema(1)
    \/ SchemaCheck(1)
    \/ Finalize(1)
    \/ Commit(1)
    \/ Read(1)
    \/ GetHealth(1)
    \/ OpenMainWriter(1)
    \/ StageFlag(1)
    \/ CommitFlag(1)
    \/ Finish(1)
    \/ ProcessUpdate

SpecGate == InitGate /\ [][NextGate]_vars

\* The status registry: one flow of document mutations with the private
\* key, the engine, and repeated deliveries of the completion callback.
StatusBatches == { <<DocA>>, <<DocB>> }
StatusDeletes == { <<JString("zz")>>, <<JNull, JString("a")>> }

NextStatus ==
    \/ Start(1, MutationOps, {Header("pk")})
    \/ Authorize(1)
    \/ Body(1, StatusBatches, StatusDeletes)
    \/ CancelBody(1)
    \/ Index(1, Identifiers)
    \/ OpenReader(1)
    \/ OpenUpdateWriter(1)
    \/ ReadSchema(1)
    \/ SchemaCheck(1)
    \/ Finalize(1)
    \/ Commit(1)
    \/ Finish(1)
    \/ ProcessUpdate
    \/ DuplicateCallback

SpecStatus == Init /\ [][NextStatus]_vars

\* The engine's update thread waits for the write transactions and gets
\* them in its turn, however often handlers take them; a handler that holds
\* the update store's writer runs to its return without suspending (there
\* is no await after the body).
HoldsWriterStep(r) ==
    ReadSchema(r) \/ SchemaCheck(r) \/ Finalize(r) \/ Commit(r)

FairSpecStatus ==
    /\ SpecStatus
    /\ SF_vars(ProcessUpdate)
    /\ WF_vars(HoldsWriterStep(1))

\* Schema inference: one flow of upserts whose one document has up to
\* MaxKeys distinct attribute names, on an index without schema on which
\* deletions have been applied, so that one more transaction fits; the
\* engine does not run.
KeyNames == {K_id, K_title, K_productId, K_ID, K_width, K_index}

KeySeqs ==
    {ks \in UNION {[1..n -> KeyNames] : n \in 1..MaxKeys} :
        \A i, j \in 1..Len(ks) : i # j => ks[i] # ks[j]}

SampleOf(ks) == [i \in 1..Len(ks) |-> [k |-> ks[i], v |-> "v"]]

InferBatches == {<<SampleOf(ks)>> : ks \in KeySeqs} \cup {<<DocP>>}

InitInfer ==
    /\ keys = AllKeys
    /\ schema = None
    /\ docs = [id \in DocIds |-> None]
    /\ unhealthy = FALSE
    /\ updates = <<>>
    /\ results = [i \in 1..(MaxUpdates - 2) |->
                     [status |-> "processed", calls |-> 1]]
    /\ nextUpdateId = MaxUpdates - 2
    /\ updateWriter = None
    /\ mainWriter = None
    /\ reqs = [r \in Req |-> Idle]
    /\ last = None

NextInfer ==
    \/ Start(1, UpsertOps, {Header("pk")})
    \/ Authorize(1)
    \/ Body(1, InferBatches, {})
    \/ CancelBody(1)
    \/ Index(1, {})
    \/ OpenReader(1)
    \/ OpenUpdateWriter(1)
    \/ ReadSchema(1)
    \/ SchemaCheck(1)
    \/ Finalize(1)
    \/ Commit(1)
    \/ Finish(1)

SpecInfer == InitInfer /\ [][NextInfer]_vars

\* The two writer locks: two flows with the master key, each an upsert, a
\* clear-all or a health write; the engine does not run, so every upsert
\* meets an index without schema.
LockOps == {"add_or_replace", "clear_all", "set_unhealthy"}
LockBatches == { <<DocA>>, <<DocN>> }

NextLock ==
    \E r \in Req :
        \/ Start(r, LockOps, {Header("mk")})
        \/ Authorize(r)
        \/ Body(r, LockBatches, {})
        \/ CancelBody(r)
        \/ Index(r, {})
        \/ OpenReader(r)
        \/ OpenUpdateWriter(r)
        \/ ReadSchema(r)
        \/ SchemaCheck(r)
        \/ Finalize(r)
        \/ Commit(r)
        \/ OpenMainWriter(r)
        \/ StageFlag(r)
        \/ CommitFlag(r)
        \/ Finish(r)

SpecLock == Init /\ [][NextLock]_vars

\* set_healthy / set_unhealthy between main_write_txn and the return
HoldsMainWriterStep(r) == StageFlag(r) \/ CommitFlag(r)

\* A handler that holds a write transaction runs to its return without
\* suspending, and a call that opens a write transaction returns.
FairSpecLock ==
    /\ SpecLock
    /\ \A r \in Req :
          /\ WF_vars(HoldsWriterStep(r))
          /\ WF_vars(HoldsMainWriterStep(r))
          /\ WF_vars(OpenUpdateWriter(r))
          /\ WF_vars(OpenMainWriter(r))

\* ------------------------------------------------------------------ claims

\* the ids and kinds of a sequence of updates
IdKinds(seq) == {<<seq[i].id, seq[i].kind>> : i \in 1..Len(seq)}

\* request r's write transaction commits in this step
Commits(r) == reqs[r].pc = "commit" /\ reqs'[r].resp = "accepted"

\* request r is answered in this step
Answered(r) == InFlight(reqs[r]) /\ reqs'[r].pc = "done"

StagedSchema(rq) == rq.staged # <<>> /\ rq.staged[1].kind = "schema"

\* C1 as stated: every returned update-id is exactly one more than the
\* update-id returned by the previous commit on the index.
C1_ReturnedIdsConsecutive ==
    [][\A r \in Req : (Commits(r) /\ IsSome(last)) =>
          Unwrap(reqs'[r].update_id) = Unwrap(last).ret + 1]_vars

\* C1 amended: returned update-ids strictly increase in commit order; each
\* is one more than the previously returned id, or two more when the
\* request also staged an inferred schema, which takes an id of its own.
C1_ReturnedIdsIncrease ==
    [][\A r \in Req : (Commits(r) /\ IsSome(last)) =>
          /\ Unwrap(reqs'[r].update_id) > Unwrap(last).ret
          /\ Unwrap(reqs'[r].update_id) =
                Unwrap(last).ret + (IF StagedSchema(reqs[r]) THEN 2 ELSE 1)]_vars

\* an upsert that inferred a schema has committed after another mutation:
\* ids 0 (the earlier mutation), 1 (the schema), 2 (the documents, returned)
C1_Witness ==
    \E r \in Req :
        /\ reqs[r].resp = "accepted"
        /\ reqs[r].update_id = Some(2)
        /\ \E i \in 1..Len(updates) : updates[i].id = 1 /\ updates[i].kind = "schema"

\* C2: of two concurrent upserts that commit one after the other, the
\* second returns the update-id of the first plus one.
C2_ConcurrentUpsertsConsecutive ==
    [][\A r \in Req :
          (Commits(r) /\ reqs[r].op \in UpsertOps /\ reqs[r].overlap
              /\ IsSome(last) /\ Unwrap(last).upsert) =>
          Unwrap(reqs'[r].update_id) = Unwrap(last).ret + 1]_vars

\* C3: of two concurrent first writes, at most one infers and stages a
\* schema: a request that overlapped a commit which staged an inferred
\* schema does not stage one itself.
C3_OneInference ==
    [][\A r \in Req :
          (Commits(r) /\ reqs[r].overlap /\ IsSome(last) /\ Unwrap(last).infered) =>
          ~StagedSchema(reqs[r])]_vars

\* the updates that become visible in this step
Published == {ik \in IdKinds(updates') : ik[1] >= nextUpdateId}

Additions == {"documents_addition", "documents_partial_addition"}

\* C4: the inferred schema and the batch's documents become visible
\* together or not at all: a step publishes either nothing or everything a
\* committing request staged, and in the queue an inferred schema is always
\* followed by its documents update.
C4_SchemaAndDocumentsAtomic ==
    /\ [](\A i \in 1..Len(updates) : updates[i].kind = "schema" =>
            /\ i < Len(updates)
            /\ updates[i + 1].kind \in Additions
            /\ updates[i + 1].id = updates[i].id + 1)
    /\ [][\A r \in Req : StagedSchema(reqs[r]) =>
            \/ Published = {}
            \/ Len(reqs[r].staged) = 2 /\ Published = IdKinds(reqs[r].staged)]_vars

\* a request lost its transaction after it staged an inferred schema, and
\* nothing of it is visible
C4_Witness ==
    \E r \in Req :
        /\ reqs[r].resp = "internal"
        /\ reqs[r].at \in {"finalize", "commit"}
        /\ schema = None
        /\ updates = <<>>
        /\ nextUpdateId = 0

\* the transaction of the writer is the counter's next ids, in order
TxnIdsInOrder ==
    \A r \in Req : updateWriter = Some(r) =>
        /\ reqs[r].txnNext = nextUpdateId + Len(reqs[r].staged)
        /\ \A i \in 1..Len(reqs[r].staged) :
              reqs[r].staged[i].id = nextUpdateId + i - 1

\* C5: a mutation whose write transaction does not commit returns no
\* update-id, consumes none, and leaves the update queue and the store as
\* they were; an update-id is returned only for an update this very step
\* made visible.
C5_FailedMutationLeavesNoTrace ==
    /\ []TxnIdsInOrder
    /\ [][\A r \in Req :
            /\ (Answered(r) /\ reqs'[r].resp # "accepted") =>
                  /\ reqs'[r].update_id = None
                  /\ UNCHANGED storeVars
                  /\ updateWriter' # Some(r)
            /\ (InFlight(reqs[r]) /\ reqs'[r].pc = "idle") =>
                  UNCHANGED <<storeVars, updateWriter>>
            /\ (Answered(r) /\ reqs'[r].resp = "accepted") =>
                  /\ IsSome(reqs'[r].update_id)
                  /\ Unwrap(reqs'[r].update_id) >= nextUpdateId
                  /\ Unwrap(reqs'[r].update_id) < nextUpdateId'
                  /\ \E ik \in Published : ik[1] = Unwrap(reqs'[r].update_id)]_vars

\* a commit failed after one mutation had been accepted: the failed
\* request holds no id and the counter stands where the accepted one left it
C5_Witness ==
    \E r \in Req :
        /\ reqs[r].resp = "internal"
        /\ reqs[r].at = "commit"
        /\ reqs[r].update_id = None
        /\ nextUpdateId = 1
        /\ updateWriter = None

\* the first document of a batch gives no schema
NotInferable(data) == data # <<>> /\ IsNone(first_infered_schema(data))

\* C6: a batch whose first document gives no schema, on an index whose
\* schema is absent, is answered bad_request; it stages nothing, gets no
\* update-id, and the queue, the counter and the schema are left alone.
C6_UninferableBatchRejected ==
    [][\A r \in Req :
          (reqs[r].pc = "infer" /\ IsNone(Unwrap(reqs[r].reader))
              /\ NotInferable(reqs[r].data) /\ reqs'[r] # reqs[r]) =>
          /\ reqs'[r].pc = "done"
          /\ reqs'[r].resp = "bad_request"
          /\ reqs'[r].update_id = None
          /\ reqs'[r].staged = <<>>
          /\ updateWriter' = None
          /\ UNCHANGED storeVars]_vars

\* a batch was refused at the schema check and the index has no schema
C6_Witness ==
    \E r \in Req :
        /\ reqs[r].resp = "bad_request"
        /\ reqs[r].at = "infer"
        /\ NotInferable(reqs[r].data)
        /\ schema = None
        /\ updates = <<>>

BatchOps == UpsertOps \cup {"delete_multiple"}

\* C7: an empty batch is never refused as a bad request, whatever the
\* state of the index: once its body is read, the request is accepted
\* unless the index is unknown or the store fails.
C7_EmptyBatchAccepted ==
    [][\A r \in Req :
          (reqs[r].op \in BatchOps /\ reqs[r].data = <<>>
              /\ reqs[r].pc \in {"index", "reader", "writer", "schema",
                                 "infer", "finalize"}
              /\ Answered(r)) =>
          reqs'[r].resp \in {"accepted", "index_not_found", "internal"}]_vars

\* the keys that satisfy a capability, by tier
Satisfying(ks, acl) ==
    CASE acl = "Admin" -> {ks.master}
      [] acl = "Private" -> {ks.master, ks.private}
      [] acl = "Public" -> {ks.master, ks.private, ks.public}

Readable(h) == IsSome(h) /\ Unwrap(h).visible

Granted(ks, h, acl) == Readable(h) /\ Some(Unwrap(h).s) \in Satisfying(ks, acl)

\* the gate decides on request r in this step
Decides(r) == reqs[r].pc = "auth" /\ reqs'[r] # reqs[r]

C9_MissingOrInvalid ==
    [][\A r \in Req : Decides(r) =>
          /\ reqs'[r].resp = "missing_header" <=> IsNone(reqs[r].hdr)
          /\ reqs'[r].resp = "invalid_token" <=>
                /\ IsSome(reqs[r].hdr)
                /\ ~Granted(keys, reqs[r].hdr, RequiredACL(reqs[r].op))]_vars

\* C9 amended: missing_header exactly when the header is absent or its
\* value is not visible ASCII; invalid_token exactly when the header is
\* readable and does not satisfy the capability; either way the gate
\* changes nothing but the request's answer.
C9_MissingOrUnreadableOrInvalid ==
    [][\A r \in Req : Decides(r) =>
          /\ reqs'[r].resp = "missing_header" <=> ~Readable(reqs[r].hdr)
          /\ reqs'[r].resp = "invalid_token" <=>
                /\ Readable(reqs[r].hdr)
                /\ ~Granted(keys, reqs[r].hdr, RequiredACL(reqs[r].op))
          /\ reqs'[r].resp \in {"none", "missing_header", "invalid_token"}
          /\ UNCHANGED <<keys, storeVars, updateWriter, mainWriter>>]_vars

\* the gate has refused a credential in a configuration with a master key
C9_Witness ==
    \E r \in Req :
        /\ reqs[r].resp = "invalid_token"
        /\ reqs[r].at = "auth"
        /\ IsSome(keys.master)

\* the handler of the request holds a transaction or opens one next
AtOrPastOpen(rq) ==
    \/ IsSome(rq.reader)
    \/ rq.pc \in {"reader", "writer", "schema", "infer", "finalize", "commit",
                 "flag", "flag_commit"}
    \/ rq.pc = "read" /\ rq.op \in ReadOps

\* C10: a document route or a health write opens a transaction only for a
\* request the gate approved for the route's capability, which is at least
\* Public; a refused request was answered by the gate and holds nothing.
C10_AuthorizedBeforeTransaction ==
    \A r \in Req :
        /\ AtOrPastOpen(reqs[r]) =>
              /\ is_allowed(keys, reqs[r].hdr, RequiredACL(reqs[r].op)) = "ok"
              /\ Granted(keys, reqs[r].hdr, "Public")
        /\ updateWriter = Some(r) \/ mainWriter = Some(r) =>
              AtOrPastOpen(reqs[r])
        /\ reqs[r].resp \in {"missing_header", "invalid_token"} =>
              /\ reqs[r].at = "auth"
              /\ reqs[r].update_id = None
              /\ updateWriter # Some(r) /\ mainWriter # Some(r)

\* a request with the private key holds the update store's writer
C10_Witness ==
    \E r \in Req :
        /\ updateWriter = Some(r)
        /\ reqs[r].hdr = Header("pk")
        /\ reqs[r].pc = "commit"

\* request r, a get_health, is answered in this step
HealthAnswered(r) == reqs[r].op = "get_health" /\ Answered(r)

UpdateIds == 0..(MaxUpdates - 1)

\* the update queue holds the ids that follow the recorded outcomes, in order
QueueFollowsResults ==
    /\ \A i \in 1..Len(updates) : updates[i].id = Len(results) + i - 1
    /\ nextUpdateId = Len(results) + Len(updates)

\* C12: an update is enqueued at acceptance, moves to processed or failed
\* at most once, by the completion callback, and a terminal status never
\* changes afterwards, whatever a later callback for the same id delivers.
C12_StatusStateMachine ==
    /\ []QueueFollowsResults
    /\ [][/\ \A id \in UpdateIds :
              /\ status_of(id) \in Terminal => status_of(id)' = status_of(id)
              /\ status_of(id) = "enqueued" =>
                    /\ status_of(id)' \in {"enqueued"} \cup Terminal
                    /\ status_of(id)' \in Terminal => Len(results') = id + 1
              /\ status_of(id) = "unknown" =>
                    status_of(id)' \in {"unknown", "enqueued"}
          /\ \A r \in Req : Commits(r) =>
                /\ reqs'[r].update_id = reqs[r].update_id
                /\ status_of(Unwrap(reqs[r].update_id)) = "unknown"
                /\ status_of(Unwrap(reqs[r].update_id))' = "enqueued"]_vars

\* a callback was delivered a second time for a failed update, and the
\* update is still failed
C12_Witness ==
    \E id \in UpdateIds :
        /\ id < Len(results)
        /\ results[id + 1] = [status |-> "failed", calls |-> 2]

\* C13: under fairness of the engine every enqueued update, that is every
\* update of a committed transaction, eventually is processed or failed;
\* the engine's outcome changes no request's answer, and a failed update
\* does not keep the updates behind it from their outcome.
C13_AcceptedEventuallyTerminal ==
    /\ \A id \in UpdateIds :
          (status_of(id) = "enqueued") ~> (status_of(id) \in Terminal)
    /\ [][results' # results => UNCHANGED reqs]_vars

\* an update failed, the update behind it was processed, and nothing is
\* left in the queue
C13_Witness ==
    /\ updates = <<>>
    /\ \E id \in UpdateIds :
          /\ id + 1 < Len(results)
          /\ results[id + 1].status = "failed"
          /\ results[id + 2].status = "processed"

DeleteOps == {"delete_document", "delete_multiple"}

\* the engine applies, in this step, a deletion none of whose ids is stored
AppliesUnknownDeletion ==
    /\ updates # <<>>
    /\ Head(updates).kind = "documents_deletion"
    /\ Head(updates).data # <<>>
    /\ \A i \in 1..Len(Head(updates).data) : IsNone(docs[Head(updates).data[i]])
    /\ Len(results') = Len(results) + 1

\* C14: a deletion is accepted whether or not its identifiers were ever
\* written (short of a failure of the store it returns an update-id), and
\* when none of them is stored the engine records it as processed and
\* leaves the stored documents as they were.
C14_DeleteUnknownIsNoOp ==
    [][/\ AppliesUnknownDeletion =>
            /\ docs' = docs
            /\ \E id \in UpdateIds :
                  id = Head(updates).id /\ status_of(id)' = "processed"
       /\ \A r \in Req :
            (reqs[r].op \in DeleteOps /\ Answered(r)
                /\ reqs[r].pc \in {"writer", "finalize", "commit"}) =>
               /\ reqs'[r].resp \in {"accepted", "internal"}
               /\ reqs'[r].resp = "accepted" <=> IsSome(reqs'[r].update_id)
               /\ reqs'[r].resp = "accepted" <=> updates' # updates]_vars

\* a document is stored, a deletion of an identifier never written was
\* accepted after it with update-id 2 and processed, and the document is
\* still stored
C14_Witness ==
    /\ last = Some([ret |-> 2, upsert |-> FALSE, infered |-> FALSE])
    /\ Len(results) = 3
    /\ results[3].status = "processed"
    /\ updates = <<>>
    /\ IsSome(docs[compute_document_id("a")])

\* the engine applies, in this step, an addition of the one document d
AppliesAddition(kind, d) ==
    /\ updates # <<>>
    /\ Head(updates).kind = kind
    /\ Head(updates).data = <<d>>
    /\ IsSome(schema)
    /\ HasKey(Entries(d), Unwrap(schema).identifier)
    /\ Len(results') = Len(results) + 1

StoredIds(ds) == {id \in DocIds : IsSome(ds[id])}

\* C15: add-or-replace stages a full addition and add-or-update a partial
\* one; a full addition leaves, under the document's id, exactly the
\* attributes of the written document; a partial addition leaves the
\* written document's attributes and those of the stored document whose
\* names the written one does not have; both leave one document under that
\* id and touch no other document.
C15_ReplaceAndMerge ==
    [][/\ \A r \in Req :
            (reqs[r].pc = "finalize" /\ reqs'[r].pc = "commit") =>
               LET staged == reqs'[r].staged[Len(reqs'[r].staged)].kind IN
               /\ reqs[r].op = "add_or_replace" => staged = "documents_addition"
               /\ reqs[r].op = "add_or_update" =>
                     staged = "documents_partial_addition"
       /\ \A d \in {DocA, DocB} :
            LET id == compute_document_id(
                          ValueOf(Entries(d), Unwrap(schema).identifier))
                old == IF IsSome(docs[id]) THEN Unwrap(docs[id]) ELSE {}
            IN
            /\ AppliesAddition("documents_addition", d) =>
                  /\ docs'[id] = Some(Entries(d))
                  /\ StoredIds(docs') = StoredIds(docs) \cup {id}
                  /\ \A o \in DocIds \ {id} : docs'[o] = docs[o]
            /\ AppliesAddition("documents_partial_addition", d) =>
                  /\ IsSome(docs'[id])
                  /\ Entries(d) \subseteq Unwrap(docs'[id])
                  /\ \A e \in old : ~HasKey(Entries(d), e.k) =>
                        e \in Unwrap(docs'[id])
                  /\ \A e \in Unwrap(docs'[id]) :
                        e \in Entries(d) \/ (e \in old /\ ~HasKey(Entries(d), e.k))
                  /\ StoredIds(docs') = StoredIds(docs) \cup {id}
                  /\ \A o \in DocIds \ {id} : docs'[o] = docs[o]]_vars

\* DocB was written and DocA then merged into it: one document is stored,
\* with DocA's title and the name only DocB has
C15_Witness ==
    /\ StoredIds(docs) = {compute_document_id("a")}
    /\ Unwrap(docs[compute_document_id("a")]) =
          {[k |-> K_id, v |-> "a"], [k |-> K_title, v |-> "x"],
           [k |-> K_name, v |-> "m"]}

\* an attribute name contains "id", in whatever case
NamesId(name) ==
    \E i \in 1..(Len(name) - 1) :
        name[i] \in {"i", "I"} /\ name[i + 1] \in {"d", "D"}

\* request r infers, in this step, from the first document of its batch
Infers(r) ==
    /\ reqs[r].pc = "infer"
    /\ IsNone(Unwrap(reqs[r].reader))
    /\ reqs[r].data # <<>>
    /\ reqs'[r] # reqs[r]
    /\ reqs'[r].resp # "internal"

\* C16: inference takes as identifier the first attribute, in the
\* document's order, whose name contains "id" in whatever case, marks every
\* attribute indexed and displayed in that order, gives no schema when no
\* name matches, and the schema is a function of the document alone;
\* ["name", "productId", "price"] gives "productId".
C16_InferenceFirstIdAttribute ==
    /\ [](Unwrap(infered_schema(DocP)).identifier = K_productId)
    /\ [][\A r \in Req : Infers(r) =>
            LET ks == Keys(reqs[r].data[1])
                hits == {i \in 1..Len(ks) : NamesId(ks[i])}
            IN IF hits = {}
               THEN /\ reqs'[r].resp = "bad_request"
                    /\ reqs'[r].staged = <<>>
               ELSE /\ Len(reqs'[r].staged) = 1
                    /\ reqs'[r].staged[1].kind = "schema"
                    /\ \E i \in hits :
                          /\ \A j \in hits : i <= j
                          /\ reqs'[r].staged[1].data.identifier = ks[i]
                    /\ reqs'[r].staged[1].data.attributes =
                          [i \in 1..Len(ks) |->
                              [name |-> ks[i], displayed |-> TRUE, indexed |-> TRUE]]]_vars

\* a schema was inferred from ["width", "index", "ID"]: two names contain
\* "id" and the first of them, "width", is the identifier
C16_Witness ==
    \E r \in Req :
        /\ reqs[r].pc = "finalize"
        /\ Keys(reqs[r].data[1]) = <<K_index, K_width, K_ID>>
        /\ reqs[r].staged # <<>>
        /\ reqs[r].staged[1].data.identifier = K_width

UpdateWriterPcs == {"schema", "infer", "finalize", "commit"}
MainWriterPcs == {"flag", "flag_commit"}

\* a write transaction is held exactly by a handler between its open and
\* its return
WritersHeldByHandlers ==
    \A r \in Req :
        /\ updateWriter = Some(r) <=>
              (reqs[r].op \in MutationOps /\ reqs[r].pc \in UpdateWriterPcs)
        /\ mainWriter = Some(r) <=>
              (reqs[r].op \in HealthWriteOps /\ reqs[r].pc \in MainWriterPcs)

\* C17: a write transaction is held only by a handler between its open and
\* its return; every return and every dropped request leaves the handler
\* without a write transaction; a held write transaction is eventually
\* released, and a request that waits for one eventually gets past the
\* open, so that the lock is free again and again.
C17_WriterAlwaysReleased ==
    /\ []WritersHeldByHandlers
    /\ [][\A r \in Req :
            (InFlight(reqs[r]) /\ ~InFlight(reqs'[r])) =>
               (updateWriter' # Some(r) /\ mainWriter' # Some(r))]_vars
    /\ \A r \in Req :
          /\ (updateWriter = Some(r)) ~> (updateWriter = None)
          /\ (mainWriter = Some(r)) ~> (mainWriter = None)
          /\ (reqs[r].pc = "writer") ~> (reqs[r].pc # "writer")

\* a handler returned early with an error while it held the update store's
\* writer, and the other request holds the writer now
C17_Witness ==
    \E r, q \in Req :
        /\ r # q
        /\ reqs[r].resp = "bad_request"
        /\ reqs[r].at = "infer"
        /\ reqs[q].overlap = FALSE
        /\ updateWriter = Some(q)
        /\ nextUpdateId = 0

\* C18: on an index without schema the outcome of the schema check is
\* decided by the first document of the batch alone: when none of its
\* names contains "id" the batch is refused, whatever the later documents
\* are; otherwise the staged schema has the first document's attributes and
\* no others, and is the schema any batch with that first document gives.
C18_OnlyFirstDocumentInfers ==
    [][\A r \in Req : Infers(r) =>
          LET first == reqs[r].data[1]
              ks == Keys(first)
          IN IF \A i \in 1..Len(ks) : ~NamesId(ks[i])
             THEN /\ reqs'[r].resp = "bad_request"
                  /\ reqs'[r].staged = <<>>
                  /\ updateWriter' = None
             ELSE /\ reqs'[r].pc = "finalize"
                  /\ Len(reqs'[r].staged) = 1
                  /\ reqs'[r].staged[1].kind = "schema"
                  /\ [i \in 1..Len(reqs'[r].staged[1].data.attributes) |->
                         reqs'[r].staged[1].data.attributes[i].name] = ks
                  /\ \A b \in GateBatches : b # <<>> /\ b[1] = first =>
                        Some(reqs'[r].staged[1].data) = infered_schema(b[1])]_vars

\* the batch [DocN, DocA] was refused although its second document has an
\* "id" attribute
C18_Witness ==
    \E r \in Req :
        /\ reqs[r].resp = "bad_request"
        /\ reqs[r].at = "infer"
        /\ reqs[r].data = <<DocN, DocA>>
        /\ IsSome(infered_schema(reqs[r].data[2]))
        /\ updateWriter = None

\* the queue is in the order of the update-ids, so that the engine, which
\* takes the head, applies a smaller id first
QueueInIdOrder ==
    \A i, j \in 1..Len(updates) : i < j => updates[i].id < updates[j].id

\* C19: a request that infers a schema stages the schema-set first and the
\* documents update second in one write transaction; the schema-set has the
\* id just below the documents update's, the response carries the id of the
\* documents update, both enter the queue in that order, and the engine
\* applies the queue from its head.
C19_SchemaSetBeforeDocuments ==
    /\ []QueueInIdOrder
    /\ [][/\ \A r \in Req :
              (Commits(r) /\ reqs[r].op \in UpsertOps
                  /\ IsNone(Unwrap(reqs[r].reader))) =>
                 /\ Len(reqs[r].staged) = 2
                 /\ reqs[r].staged[1].kind = "schema"
                 /\ reqs[r].staged[2].kind \in Additions
                 /\ reqs[r].staged[2].id = reqs[r].staged[1].id + 1
                 /\ reqs'[r].update_id = Some(reqs[r].staged[2].id)
                 /\ updates' = updates \o reqs[r].staged
          /\ Len(results') > Len(results) =>
                 /\ updates' = Tail(updates)
                 /\ Len(results') = Head(updates).id + 1]_vars

\* the inferred schema-set, id 0, is applied while the documents update of
\* the same request, id 1, the id that was returned, is still enqueued
C19_Witness ==
    /\ last = Some([ret |-> 1, upsert |-> TRUE, infered |-> TRUE])
    /\ Len(results) = 1
    /\ results[1].status = "processed"
    /\ IsSome(schema)
    /\ Len(updates) = 1
    /\ updates[1].id = 1
    /\ updates[1].kind \in Additions

\* C20: key listing answers with key material only a request whose
\* credential is the master key; the body is the configured private and
\* public keys and nothing else, so the master key is in it only where a
\* lower tier was configured with the same string; every other request is
\* answered by the gate with an authorization error and no body; no state
\* changes either way.
C20_KeyListAdminOnly ==
    [][\A r \in Req : (reqs[r].op \in KeyOps /\ Answered(r)) =>
          /\ UNCHANGED <<keys, storeVars, updateWriter, mainWriter>>
          /\ IF Granted(keys, reqs[r].hdr, "Admin")
             THEN /\ reqs'[r].resp = "ok"
                  /\ reqs'[r].data =
                        <<[private |-> keys.private, public |-> keys.public]>>
                  /\ DOMAIN reqs'[r].data[1] = {"private", "public"}
                  /\ keys.master \notin {keys.private, keys.public} =>
                        \A f \in DOMAIN reqs'[r].data[1] :
                            reqs'[r].data[1][f] # keys.master
             ELSE /\ reqs'[r].resp \in {"missing_header", "invalid_token"}
                  /\ reqs'[r].data = <<>>]_vars

\* the keys were listed for the master key: the private key and an
\* unconfigured public key
C20_Witness ==
    \E r \in Req :
        /\ reqs[r].resp = "ok"
        /\ reqs[r].at = "list"
        /\ keys.master = Some("mk")
        /\ reqs[r].data = <<[private |-> Some("pk"), public |-> None]>>

====
